---------------------------- MODULE Spec2Model ----------------------------
(***************************************************************************)
(* A model of the Qdrant-backed long-term memory store                     *)
(* (src/src/semantic_memory/qdrant_db.py, qdrant_helpers.py).              *)
(*                                                                         *)
(* Encoding of Python values:                                              *)
(*   - an absent string (None) is the string None;                         *)
(*   - an Optional[int] is <<>> (None) or <<n>>;                           *)
(*   - an Optional[List[str]] is NoTopics (None) or a sequence of strings; *)
(*   - a value a method returns is <<>> (None) or <<v>>;                   *)
(*   - a memory_id is a UUID string; the model names the UUIDs 1..MaxIds   *)
(*     by their rank in the backend's order of point ids.                  *)
(***************************************************************************)
EXTENDS Integers, Sequences, FiniteSets, TLC

\* ------------------------------------------------------------------ bounds
MaxIds == 2
MaxLimit == 2
MaxPage == 3
MaxCreateFailures == 1
MaxClock == 2
MaxOffsetInput == 10

\* ------------------------------------------------------- program constants
DefaultPageSize == 100
DefaultTimeToLive == 60

\* ---------------------------------------------------------- input domains
None == "None"
NoTopics == <<None>>
MemoryIds == 1..MaxIds
Times == {1, 2}

\* The UserMemory objects callers pass to upsert_user_memory (memory_id apart).
UserMemories ==
    { [user_id |-> "u1", agent_id |-> None, team_id |-> None,
       memory |-> "c1", topics |-> <<"health">>],
      [user_id |-> "u1", agent_id |-> "a1", team_id |-> "t1",
       memory |-> "c2", topics |-> <<"finance">>],
      [user_id |-> "u2", agent_id |-> "a1", team_id |-> None,
       memory |-> "c2", topics |-> <<"health", "finance">>],
      [user_id |-> None, agent_id |-> None, team_id |-> "t1",
       memory |-> "c1", topics |-> NoTopics] }

\* --------------------------------------------------------------- the state
VARIABLES
    collection,   \* TRUE when the backend holds the "<prefix>_memories" collection
    points,       \* the points of that collection: records [id, vector, payload]
    deleted,      \* history: ids passed to delete_user_memory and not upserted since
    paging,       \* history: a caller reading page 1, 2, ... of one query
    creates,      \* history: the create_collection calls issued, and those that failed
    procs,        \* the upsert_user_memory calls running concurrently, each at its step
    writes,       \* history: the callers whose point write reached the backend, in order
    res           \* the last operation: its name, arguments, backend calls, outcome

vars == <<collection, points, deleted, paging, creates, procs, writes, res>>

\* ------------------------------------------------------- generic helpers
\* The first n elements of s (Python s[:n], n >= 0).
Take(s, n) == SubSeq(s, 1, IF n < Len(s) THEN n ELSE Len(s))

\* Python s[a:b] for 0 <= a <= b.
Slice(s, a, b) ==
    IF a >= Len(s) THEN <<>>
    ELSE SubSeq(s, a + 1, IF b < Len(s) THEN b ELSE Len(s))

SeqRange(s) == { s[i] : i \in 1..Len(s) }

\* How many times the backend call `name` occurs in the sequence of calls.
Count(calls, name) == Cardinality({ i \in 1..Len(calls) : calls[i] = name })

\* The elements of the finite set S of integers in ascending order.
RECURSIVE SortedSeq(_)
SortedSeq(S) ==
    IF S = {} THEN <<>>
    ELSE LET m == CHOOSE x \in S : \A y \in S : x <= y
         IN  <<m>> \o SortedSeq(S \ {m})


\* ------------------------------------------------------------- embeddings
\* embedder.get_embedding(text) and _get_embedding(text): each text has a
\* fixed vector; two coordinates are enough to rank the contents.
get_embedding(text) ==
    CASE text = "c1" -> <<1, 0>>
      [] text = "c2" -> <<0, 1>>
      [] text = "q1" -> <<2, 1>>
      [] text = "q2" -> <<1, 2>>
      [] OTHER       -> <<0, 0>>

_get_embedding(text) == get_embedding(text)

\* The dot product of two vectors of one size, over their first n and over
\* all coordinates.
RECURSIVE DotUpTo(_, _, _)
DotUpTo(q, v, n) == IF n = 0 THEN 0 ELSE q[n] * v[n] + DotUpTo(q, v, n - 1)

\* (The sum over two coordinates, the size of the embeddings here, is
\* written out.)
Dot(q, v) ==
    IF Len(q) = 2 THEN q[1] * v[1] + q[2] * v[2] ELSE DotUpTo(q, v, Len(q))

\* The similarity score the backend gives point vector v for query vector q
\* in a collection of distance Distance.COSINE: the cosine
\* Dot(q, v) / sqrt(Dot(q, q) * Dot(v, v)), kept exactly as its numerator and
\* the square of its denominator; a vector of length 0 scores 0.
Score(q, v) ==
    LET norm2 == Dot(q, q) * Dot(v, v)
    IN  IF norm2 = 0
        THEN [dot |-> 0, norm2 |-> 1]
        ELSE [dot |-> Dot(q, v), norm2 |-> norm2]

\* The square of a score's numerator, with the numerator's sign.
SignedSquare(x) == (IF x.dot < 0 THEN -1 ELSE 1) * x.dot * x.dot

\* x.dot / sqrt(x.norm2) > y.dot / sqrt(y.norm2), and the same with =.
ScoreGreater(x, y) == SignedSquare(x) * y.norm2 > SignedSquare(y) * x.norm2

ScoreEqual(x, y) == SignedSquare(x) * y.norm2 = SignedSquare(y) * x.norm2

\* ------------------------------------------------------------ the filter
\* A faulty filter builder: the agent_id condition is left out.
build_filter_without_agent(user_id, agent_id, team_id, topics) ==
    LET c1 == IF user_id # None
              THEN <<[key |-> "user_id", kind |-> "MatchValue", value |-> user_id]>>
              ELSE <<>>
        c3 == IF team_id # None
              THEN <<[key |-> "team_id", kind |-> "MatchValue", value |-> team_id]>>
              ELSE <<>>
        c4 == IF topics # NoTopics /\ Len(topics) > 0
              THEN <<[key |-> "topics", kind |-> "MatchAny", any |-> topics]>>
              ELSE <<>>
        conditions == c1 \o c3 \o c4
    IN  IF conditions = <<>> THEN <<>> ELSE <<[must |-> conditions]>>

\* A faulty filter builder: the tenant fields are tested for truth, so an
\* empty string counts as absent.
build_filter_testing_truth(user_id, agent_id, team_id, topics) ==
    LET c1 == IF user_id # None /\ user_id # ""
              THEN <<[key |-> "user_id", kind |-> "MatchValue", value |-> user_id]>>
              ELSE <<>>
        c2 == IF agent_id # None /\ agent_id # ""
              THEN <<[key |-> "agent_id", kind |-> "MatchValue", value |-> agent_id]>>
              ELSE <<>>
        c3 == IF team_id # None /\ team_id # ""
              THEN <<[key |-> "team_id", kind |-> "MatchValue", value |-> team_id]>>
              ELSE <<>>
        c4 == IF topics # NoTopics /\ Len(topics) > 0
              THEN <<[key |-> "topics", kind |-> "MatchAny", any |-> topics]>>
              ELSE <<>>
        conditions == c1 \o c2 \o c3 \o c4
    IN  IF conditions = <<>> THEN <<>> ELSE <<[must |-> conditions]>>

\* _build_filter_conditions: None (<<>>) or Filter(must = conditions).
_build_filter_conditions(user_id, agent_id, team_id, topics) ==
    LET c1 == IF user_id # None
              THEN <<[key |-> "user_id", kind |-> "MatchValue", value |-> user_id]>>
              ELSE <<>>
        c2 == IF agent_id # None
              THEN <<[key |-> "agent_id", kind |-> "MatchValue", value |-> agent_id]>>
              ELSE <<>>
        c3 == IF team_id # None
              THEN <<[key |-> "team_id", kind |-> "MatchValue", value |-> team_id]>>
              ELSE <<>>
        c4 == IF topics # NoTopics /\ Len(topics) > 0
              THEN <<[key |-> "topics", kind |-> "MatchAny", any |-> topics]>>
              ELSE <<>>
        conditions == c1 \o c2 \o c3 \o c4
    IN  IF conditions = <<>> THEN <<>> ELSE <<[must |-> conditions]>>

\* ------------------------------------------------------------ the backend
\* How the backend evaluates one FieldCondition on a payload: MatchValue is
\* equality with the payload's value (a null field equals no value), MatchAny
\* holds when the payload's list holds one of the values.
ConditionHolds(payload, c) ==
    IF c.kind = "MatchValue"
    THEN payload[c.key] = c.value
    ELSE /\ payload[c.key] # NoTopics
         /\ \E i \in 1..Len(payload[c.key]) : payload[c.key][i] \in SeqRange(c.any)

\* A payload passes an absent filter, and a Filter when every must holds.
FilterHolds(payload, filter) ==
    \/ filter = <<>>
    \/ /\ filter # <<>>
       /\ \A i \in 1..Len(filter[1].must) : ConditionHolds(payload, filter[1].must[i])

Matching(pts, filter) == { p \in pts : FilterHolds(p.payload, filter) }

\* qdrant_client.count(count_filter, exact=True).
QdrantCount(pts, filter) == Cardinality(Matching(pts, filter))

\* A faulty write: a point that exists keeps its vector and gets the payload.
QdrantUpsertKeepingVector(pts, point) ==
    { p \in pts : p.id # point.id } \cup
    { [id |-> point.id, payload |-> point.payload,
       vector |-> IF \E p \in pts : p.id = point.id
                  THEN (CHOOSE p \in pts : p.id = point.id).vector
                  ELSE point.vector] }

\* A faulty write: the point is added beside the point of the same id.
QdrantUpsertAppend(pts, point) == pts \cup { point }

\* qdrant_client.upsert(points=[point]): the point replaces the point of the
\* same id, vector and payload whole.
QdrantUpsert(pts, point) == { p \in pts : p.id # point.id } \cup { point }

PointOf(pts, id) == CHOOSE p \in pts : p.id = id

\* qdrant_client.scroll(scroll_filter, limit, offset): the matching points in
\* the order of their ids, starting at the point id `offset`.  The backend
\* orders every numeric id before every UUID, so for the numeric offset the
\* store passes no stored point (all UUIDs) lies before the start.
IsUuid(id) == id \in MemoryIds

PointIdLess(id, offset) == ~IsUuid(id) /\ id < offset

ScrollFrom(pts, offset) == { p \in pts : ~PointIdLess(p.id, offset) }

QdrantScroll(pts, filter, limit, offset) ==
    LET from == Matching(ScrollFrom(pts, offset), filter)
        ids  == SortedSeq({ p.id : p \in from })
    IN  Take([i \in 1..Len(ids) |-> PointOf(pts, ids[i])], limit)

\* qdrant_client.search(query_vector, query_filter, limit): the matching
\* points by descending score, equal scores in the order of their ids.
RECURSIVE Ranked(_, _)
Ranked(S, q) ==
    IF S = {} THEN <<>>
    ELSE LET score == [p \in S |-> Score(q, p.vector)]
             best  == CHOOSE p \in S : \A o \in S :
                          \/ ScoreGreater(score[p], score[o])
                          \/ /\ ScoreEqual(score[p], score[o])
                             /\ p.id <= o.id
         IN  <<best>> \o Ranked(S \ {best}, q)

QdrantSearch(pts, query_vector, filter, limit) ==
    Take(Ranked(Matching(pts, filter), query_vector), limit)

Payloads(ps) == [i \in 1..Len(ps) |-> ps[i].payload]


\* ------------------------------------------------------- qdrant_helpers.py
\* A faulty _scroll_with_filters: the count is taken without the filter.
scroll_counting_without_filter(coll, pts, filter, limit, offset, fail) ==
    IF ~coll \/ fail = "count"
    THEN [memories |-> <<>>, total_count |-> 0,
          calls |-> <<"count">>, failed |-> "count"]
    ELSE IF fail = "scroll"
    THEN [memories |-> <<>>, total_count |-> 0,
          calls |-> <<"count", "scroll">>, failed |-> "scroll"]
    ELSE [memories |-> Payloads(QdrantScroll(pts, filter, limit, offset)),
          total_count |-> QdrantCount(pts, <<>>),
          calls |-> <<"count", "scroll">>, failed |-> "none"]

\* _scroll_with_filters: count, then scroll; any exception of the two calls
\* (a missing collection included) is logged and ([], 0) returned.
_scroll_with_filters(coll, pts, filter, limit, offset, fail) ==
    IF ~coll \/ fail = "count"
    THEN [memories |-> <<>>, total_count |-> 0,
          calls |-> <<"count">>, failed |-> "count"]
    ELSE IF fail = "scroll"
    THEN [memories |-> <<>>, total_count |-> 0,
          calls |-> <<"count", "scroll">>, failed |-> "scroll"]
    ELSE [memories |-> Payloads(QdrantScroll(pts, filter, limit, offset)),
          total_count |-> QdrantCount(pts, filter),
          calls |-> <<"count", "scroll">>, failed |-> "none"]

\* A faulty _semantic_search: total_count is the size of the search result.
semantic_search_counting_results(coll, pts, query_vector, filter, limit, offset, fail) ==
    IF ~coll \/ fail = "search"
    THEN [memories |-> <<>>, total_count |-> 0,
          calls |-> <<"search">>, failed |-> "search"]
    ELSE IF fail = "count"
    THEN [memories |-> <<>>, total_count |-> 0,
          calls |-> <<"search", "count">>, failed |-> "count"]
    ELSE LET search_results == QdrantSearch(pts, query_vector, filter, limit + offset)
             paginated_results ==
                 IF offset > 0 THEN Slice(search_results, offset, offset + limit)
                 ELSE Take(search_results, limit)
         IN  [memories |-> Payloads(paginated_results),
              total_count |-> Len(search_results),
              calls |-> <<"search", "count">>, failed |-> "none"]

\* A faulty _semantic_search: it fetches limit points, not limit + offset.
semantic_search_fetching_limit(coll, pts, query_vector, filter, limit, offset, fail) ==
    IF ~coll \/ fail = "search"
    THEN [memories |-> <<>>, total_count |-> 0,
          calls |-> <<"search">>, failed |-> "search"]
    ELSE IF fail = "count"
    THEN [memories |-> <<>>, total_count |-> 0,
          calls |-> <<"search", "count">>, failed |-> "count"]
    ELSE LET search_results == QdrantSearch(pts, query_vector, filter, limit)
             paginated_results ==
                 IF offset > 0 THEN Slice(search_results, offset, offset + limit)
                 ELSE Take(search_results, limit)
         IN  [memories |-> Payloads(paginated_results),
              total_count |-> QdrantCount(pts, filter),
              calls |-> <<"search", "count">>, failed |-> "none"]

\* _semantic_search: one vector search for limit + offset points, then the
\* count, then the slice [offset : offset + limit] of the search result; any
\* exception is logged and ([], 0) returned.
_semantic_search(coll, pts, query_vector, filter, limit, offset, fail) ==
    IF ~coll \/ fail = "search"
    THEN [memories |-> <<>>, total_count |-> 0,
          calls |-> <<"search">>, failed |-> "search"]
    ELSE IF fail = "count"
    THEN [memories |-> <<>>, total_count |-> 0,
          calls |-> <<"search", "count">>, failed |-> "count"]
    ELSE LET search_results == QdrantSearch(pts, query_vector, filter, limit + offset)
             paginated_results ==
                 IF offset > 0 THEN Slice(search_results, offset, offset + limit)
                 ELSE Take(search_results, limit)
         IN  [memories |-> Payloads(paginated_results),
              total_count |-> QdrantCount(pts, filter),
              calls |-> <<"search", "count">>, failed |-> "none"]

\* The order Python gives the strings of the model.
StrOrder == <<"", "a1", "c1", "c2", "finance", "health", "t1", "u1", "u2">>
StrRank(str) == CHOOSE i \in 1..Len(StrOrder) : StrOrder[i] = str

RECURSIVE ListLess(_, _)
ListLess(a, b) ==
    IF a = <<>> THEN b # <<>>
    ELSE IF b = <<>> THEN FALSE
    ELSE IF StrRank(Head(a)) # StrRank(Head(b)) THEN StrRank(Head(a)) < StrRank(Head(b))
    ELSE ListLess(Tail(a), Tail(b))

\* x.get(sort_by, ""): the type of the key a record gets, and the order of
\* two keys of one type.
IntKeys == {"updated_at", "memory_id"}
SortKeyType(x, sort_by) ==
    IF sort_by \notin DOMAIN x THEN "str"
    ELSE IF sort_by \in IntKeys THEN (IF sort_by = "updated_at" THEN "int" ELSE "str")
    ELSE IF sort_by = "topics" THEN (IF x.topics = NoTopics THEN "NoneType" ELSE "list")
    ELSE IF x[sort_by] = None THEN "NoneType" ELSE "str"

SortKeyLess(x, y, sort_by) ==
    IF sort_by \notin DOMAIN x THEN FALSE
    ELSE IF sort_by \in IntKeys THEN x[sort_by] < y[sort_by]
    ELSE IF sort_by = "topics" THEN ListLess(x.topics, y.topics)
    ELSE StrRank(x[sort_by]) < StrRank(y[sort_by])

\* sorted(records, key, reverse) is stable, also when reversed: a record
\* moves before another only when its key is strictly before (after, when
\* reversed) the other's.
SortInsert(sorted, x, sort_by, reverse) ==
    LET Before(a, b) == IF reverse THEN SortKeyLess(b, a, sort_by)
                        ELSE SortKeyLess(a, b, sort_by)
        k == Cardinality({ i \in 1..Len(sorted) : ~Before(x, sorted[i]) })
    IN  SubSeq(sorted, 1, k) \o <<x>> \o SubSeq(sorted, k + 1, Len(sorted))

RECURSIVE StableSort(_, _, _)
StableSort(records, sort_by, reverse) ==
    IF records = <<>> THEN <<>>
    ELSE SortInsert(StableSort(SubSeq(records, 1, Len(records) - 1), sort_by, reverse),
                    records[Len(records)], sort_by, reverse)

\* A faulty _apply_sorting: sort_order is not looked at.
apply_sorting_ascending_only(records, sort_by, sort_order) ==
    IF sort_by = None \/ sort_by = "" \/ records = <<>> THEN records
    ELSE LET types == { SortKeyType(records[i], sort_by) : i \in 1..Len(records) }
             raises == /\ Len(records) > 1
                       /\ (Cardinality(types) > 1 \/ "NoneType" \in types)
         IN  IF raises THEN records ELSE StableSort(records, sort_by, FALSE)

\* _apply_sorting: comparing keys of two types, or two None keys, raises
\* TypeError, which is logged and the records returned unsorted.
_apply_sorting(records, sort_by, sort_order) ==
    IF sort_by = None \/ sort_by = "" \/ records = <<>> THEN records
    ELSE LET reverse == IF sort_order # None /\ sort_order # ""
                        THEN sort_order = "desc" ELSE FALSE
             types == { SortKeyType(records[i], sort_by) : i \in 1..Len(records) }
             raises == /\ Len(records) > 1
                       /\ (Cardinality(types) > 1 \/ "NoneType" \in types)
         IN  IF raises THEN records ELSE StableSort(records, sort_by, reverse)

\* UserMemory.from_dict(record): the object built from the payload's keys,
\* its other fields at their defaults.
from_dict(data) ==
    [memory |-> data.memory, memory_id |-> data.memory_id, topics |-> data.topics,
     user_id |-> data.user_id, agent_id |-> data.agent_id, team_id |-> data.team_id,
     updated_at |-> data.updated_at, input |-> None, feedback |-> None]


\* ------------------------------------------------------------ qdrant_db.py
\* Python truth of an Optional[int]: None and 0 are false.
Truthy(opt) == opt # <<>> /\ opt[1] # 0

page_size_of(limit) == IF Truthy(limit) THEN limit[1] ELSE DefaultPageSize

\* A faulty offset: a page of 0 is taken for a page number.
offset_without_zero_guard(page, page_size) ==
    IF page # <<>> THEN (page[1] - 1) * page_size ELSE 0

offset_of(page, page_size) ==
    IF Truthy(page) THEN (page[1] - 1) * page_size ELSE 0

\* A faulty get_user_memories: it sorts everything that matches and cuts the
\* page out of the sorted list.
get_user_memories_sorting_first(coll, pts, user_id, agent_id, team_id, topics, search_content, limit, page, sort_by, sort_order, deserialize, fail) ==
    LET filter_conditions == _build_filter_conditions(user_id, agent_id, team_id, topics)
        page_size == page_size_of(limit)
        offset    == offset_of(page, page_size)
        searching == search_content # None /\ search_content # ""
        found == IF searching
                 THEN _semantic_search(coll, pts, _get_embedding(search_content),
                                       filter_conditions, DefaultPageSize, 0, fail)
                 ELSE _scroll_with_filters(coll, pts, filter_conditions,
                                           DefaultPageSize, 0, fail)
        memories == Slice(_apply_sorting(found.memories, sort_by, sort_order),
                          offset, offset + page_size)
    IN  IF searching /\ fail = "embed"
        THEN [status |-> "raised", value |-> <<>>,
              calls |-> <<"embed">>, failed |-> "embed"]
        ELSE [status |-> "returned",
              value  |-> IF ~deserialize
                         THEN <<[memories |-> memories,
                                 total_count |-> <<found.total_count>>]>>
                         ELSE <<[memories |-> [i \in 1..Len(memories) |->
                                                   from_dict(memories[i])],
                                 total_count |-> <<>>]>>,
              calls  |-> (IF searching THEN <<"embed">> ELSE <<>>) \o found.calls,
              failed |-> found.failed]

\* get_user_memories as a function of the backend's state and of the call
\* that fails (fail), if any: what it returns or that it raises, and the
\* backend calls it made.
get_user_memories(coll, pts, user_id, agent_id, team_id, topics, search_content, limit, page, sort_by, sort_order, deserialize, fail) ==
    LET filter_conditions == _build_filter_conditions(user_id, agent_id, team_id, topics)
        page_size == page_size_of(limit)
        offset    == offset_of(page, page_size)
        searching == search_content # None /\ search_content # ""
        found == IF searching
                 THEN _semantic_search(coll, pts, _get_embedding(search_content),
                                       filter_conditions, page_size, offset, fail)
                 ELSE _scroll_with_filters(coll, pts, filter_conditions,
                                           page_size, offset, fail)
        memories == _apply_sorting(found.memories, sort_by, sort_order)
    IN  IF searching /\ fail = "embed"
        THEN [status |-> "raised", value |-> <<>>,
              calls |-> <<"embed">>, failed |-> "embed"]
        ELSE [status |-> "returned",
              value  |-> IF ~deserialize
                         THEN <<[memories |-> memories,
                                 total_count |-> <<found.total_count>>]>>
                         ELSE <<[memories |-> [i \in 1..Len(memories) |->
                                                   from_dict(memories[i])],
                                 total_count |-> <<>>]>>,
              calls  |-> (IF searching THEN <<"embed">> ELSE <<>>) \o found.calls,
              failed |-> found.failed]

\* A faulty _ensure_collection_exists: it creates without looking at the list.
ensure_always_creating(coll, fail) ==
    IF fail = "get_collections"
    THEN [ok |-> FALSE, coll |-> coll,
          calls |-> <<"get_collections">>, failed |-> "get_collections"]
    ELSE IF fail = "create_collection"
    THEN [ok |-> FALSE, coll |-> coll,
          calls |-> <<"get_collections", "create_collection">>,
          failed |-> "create_collection"]
    ELSE [ok |-> TRUE, coll |-> TRUE,
          calls |-> <<"get_collections", "create_collection">>, failed |-> "none"]

\* _ensure_collection_exists: lists the collections and creates the missing
\* one; an exception of either call is logged and False returned.
_ensure_collection_exists(coll, fail) ==
    IF fail = "get_collections"
    THEN [ok |-> FALSE, coll |-> coll,
          calls |-> <<"get_collections">>, failed |-> "get_collections"]
    ELSE IF coll
    THEN [ok |-> TRUE, coll |-> coll,
          calls |-> <<"get_collections">>, failed |-> "none"]
    ELSE IF fail = "create_collection"
    THEN [ok |-> FALSE, coll |-> coll,
          calls |-> <<"get_collections", "create_collection">>,
          failed |-> "create_collection"]
    ELSE [ok |-> TRUE, coll |-> TRUE,
          calls |-> <<"get_collections", "create_collection">>, failed |-> "none"]

\* create_payload_indexes: one index per field; the first exception ends the
\* loop with a warning.
IndexFields == <<"user_id", "agent_id", "team_id", "workflow_id">>

create_payload_indexes(index_fields, fail) ==
    IF fail = "create_payload_index" /\ index_fields # <<>>
    THEN [calls |-> <<"create_payload_index">>, failed |-> "create_payload_index"]
    ELSE [calls |-> [i \in 1..Len(index_fields) |-> "create_payload_index"],
          failed |-> "none"]

\* A faulty _store_record: it returns False when the payload indexes fail.
store_record_failing_on_indexes(coll, pts, record_id, data, vector, index_fields, fail) ==
    LET ensured == _ensure_collection_exists(coll, fail)
        indexed == create_payload_indexes(index_fields, fail)
    IN  IF vector = <<>>
        THEN [success |-> FALSE, written |-> FALSE, coll |-> ensured.coll, pts |-> pts,
              calls |-> ensured.calls,
              failed |-> IF ensured.failed # "none" THEN ensured.failed
                         ELSE "PointStruct"]
        ELSE IF ~ensured.coll \/ fail = "upsert"
        THEN [success |-> FALSE, written |-> FALSE, coll |-> ensured.coll, pts |-> pts,
              calls |-> ensured.calls \o <<"upsert">>,
              failed |-> IF ensured.failed # "none" THEN ensured.failed ELSE "upsert"]
        ELSE [success |-> index_fields = <<>> \/ indexed.failed = "none",
              written |-> TRUE, coll |-> ensured.coll,
              pts |-> QdrantUpsert(pts, [id |-> record_id, vector |-> vector[1],
                                         payload |-> data]),
              calls |-> ensured.calls \o <<"upsert">> \o
                        (IF index_fields # <<>> THEN indexed.calls ELSE <<>>),
              failed |-> IF ensured.failed # "none" THEN ensured.failed
                         ELSE IF index_fields # <<>> THEN indexed.failed ELSE "none"]

\* A faulty _store_record: the point is written before the collection is
\* ensured.
store_record_writing_first(coll, pts, record_id, data, vector, index_fields, fail) ==
    LET ensured == _ensure_collection_exists(coll, fail)
        indexed == create_payload_indexes(index_fields, fail)
    IN  IF vector = <<>>
        THEN [success |-> FALSE, written |-> FALSE, coll |-> ensured.coll, pts |-> pts,
              calls |-> ensured.calls,
              failed |-> IF ensured.failed # "none" THEN ensured.failed
                         ELSE "PointStruct"]
        ELSE IF ~coll \/ fail = "upsert"
        THEN [success |-> FALSE, written |-> FALSE, coll |-> coll, pts |-> pts,
              calls |-> <<"upsert">>,
              failed |-> "upsert"]
        ELSE [success |-> TRUE, written |-> TRUE, coll |-> ensured.coll,
              pts |-> QdrantUpsert(pts, [id |-> record_id, vector |-> vector[1],
                                         payload |-> data]),
              calls |-> <<"upsert">> \o ensured.calls \o
                        (IF index_fields # <<>> THEN indexed.calls ELSE <<>>),
              failed |-> IF ensured.failed # "none" THEN ensured.failed
                         ELSE IF index_fields # <<>> THEN indexed.failed ELSE "none"]

\* _store_record: ensure (its result unused), the point built from the
\* vector, the point write, the payload indexes. vector is <<>> (None) or
\* <<v>>: PointStruct refuses vector=None, and that exception, like one of
\* the point write, is logged and False returned; no zero vector is built.
\* `written` tells whether the backend took the point.
_store_record(coll, pts, record_id, data, vector, index_fields, fail) ==
    LET ensured == _ensure_collection_exists(coll, fail)
        indexed == create_payload_indexes(index_fields, fail)
    IN  IF vector = <<>>
        THEN [success |-> FALSE, written |-> FALSE, coll |-> ensured.coll, pts |-> pts,
              calls |-> ensured.calls,
              failed |-> IF ensured.failed # "none" THEN ensured.failed
                         ELSE "PointStruct"]
        ELSE IF ~ensured.coll \/ fail = "upsert"
        THEN [success |-> FALSE, written |-> FALSE, coll |-> ensured.coll, pts |-> pts,
              calls |-> ensured.calls \o <<"upsert">>,
              failed |-> IF ensured.failed # "none" THEN ensured.failed ELSE "upsert"]
        ELSE [success |-> TRUE, written |-> TRUE, coll |-> ensured.coll,
              pts |-> QdrantUpsert(pts, [id |-> record_id, vector |-> vector[1],
                                         payload |-> data]),
              calls |-> ensured.calls \o <<"upsert">> \o
                        (IF index_fields # <<>> THEN indexed.calls ELSE <<>>),
              failed |-> IF ensured.failed # "none" THEN ensured.failed
                         ELSE IF index_fields # <<>> THEN indexed.failed ELSE "none"]

\* What embedder.get_embedding hands to upsert_user_memory: the vector of the
\* text, or no vector (None) when the provider yields none.
embedding_of(text, fail) ==
    IF fail = "no_vector" THEN <<>> ELSE <<get_embedding(text)>>

\* The payload upsert_user_memory builds for a memory at time now.
data_of(memory, memory_id, now) ==
    [user_id |-> memory.user_id, agent_id |-> memory.agent_id,
     team_id |-> memory.team_id, memory_id |-> memory_id,
     memory |-> memory.memory, topics |-> memory.topics, updated_at |-> now]

\* A faulty upsert_user_memory: the record returned is built anew, with the
\* time read a second time.
upsert_returning_rebuilt_data(coll, pts, memory, memory_id, now, deserialize, fail) ==
    LET data   == data_of(memory, memory_id, now)
        again  == data_of(memory, memory_id, now + 1)
        stored == _store_record(coll, pts, memory_id, data,
                                embedding_of(memory.memory, fail), IndexFields, fail)
    IN  IF fail = "embed"
        THEN [status |-> "raised", value |-> <<>>, coll |-> coll, pts |-> pts,
              written |-> FALSE, calls |-> <<"embed">>, failed |-> "embed"]
        ELSE [status |-> "returned", written |-> stored.written,
              value  |-> IF ~stored.success THEN <<>>
                         ELSE IF ~deserialize THEN <<again>>
                         ELSE <<from_dict(again)>>,
              coll   |-> stored.coll, pts |-> stored.pts,
              calls  |-> <<"embed">> \o stored.calls,
              failed |-> stored.failed]

\* A faulty upsert_user_memory: a failure of the embedder is swallowed and
\* the record written with a vector of zeros.
upsert_defaulting_to_zero_vector(coll, pts, memory, memory_id, now, deserialize, fail) ==
    LET data   == data_of(memory, memory_id, now)
        stored == _store_record(coll, pts, memory_id, data,
                                IF fail = "embed" THEN <<<<0, 0>>>>
                                ELSE embedding_of(memory.memory, fail),
                                IndexFields, fail)
    IN  [status |-> "returned", written |-> stored.written,
         value  |-> IF ~stored.success THEN <<>>
                    ELSE IF ~deserialize THEN <<data>>
                    ELSE <<from_dict(data)>>,
         coll   |-> stored.coll, pts |-> stored.pts,
         calls  |-> <<"embed">> \o stored.calls,
         failed |-> IF fail = "embed" THEN "embed" ELSE stored.failed]

\* upsert_user_memory for a memory whose id is memory_id (the caller's, or
\* the fresh uuid4).
upsert_user_memory(coll, pts, memory, memory_id, now, deserialize, fail) ==
    LET data   == data_of(memory, memory_id, now)
        stored == _store_record(coll, pts, memory_id, data,
                                embedding_of(memory.memory, fail), IndexFields, fail)
    IN  IF fail = "embed"
        THEN [status |-> "raised", value |-> <<>>, coll |-> coll, pts |-> pts,
              written |-> FALSE, calls |-> <<"embed">>, failed |-> "embed"]
        ELSE [status |-> "returned", written |-> stored.written,
              value  |-> IF ~stored.success THEN <<>>
                         ELSE IF ~deserialize THEN <<data>>
                         ELSE <<from_dict(data)>>,
              coll   |-> stored.coll, pts |-> stored.pts,
              calls  |-> <<"embed">> \o stored.calls,
              failed |-> stored.failed]


\* ------------------------------------------------------------- operations
Ids(pts) == { p.id : p \in pts }

\* The history of create_collection calls after an operation made `calls`.
CreatesAfter(calls, failed) ==
    [issued |-> creates.issued + Count(calls, "create_collection"),
     failed |-> creates.failed + (IF failed = "create_collection" THEN 1 ELSE 0)]

\* upsert_user_memory(memory): memory_id is <<>> (the store draws a uuid4,
\* an id no stored point has) or <<id>>.
UpsertUserMemory(memory, memory_id, now, deserialize, fail) ==
    \E id \in (IF memory_id = <<>> THEN MemoryIds \ Ids(points) ELSE {memory_id[1]}) :
        LET out == upsert_user_memory(collection, points, memory, id, now,
                                      deserialize, fail)
        IN  /\ out.failed = "create_collection" => creates.failed < MaxCreateFailures
            /\ collection' = out.coll
            /\ points' = out.pts
            /\ creates' = CreatesAfter(out.calls, out.failed)
            /\ deleted' = IF out.pts # points \/ out.value # <<>>
                          THEN deleted \ {id} ELSE deleted
            /\ res' = [op |-> "upsert_user_memory",
                       args |-> [memory |-> memory, memory_id |-> memory_id,
                                 deserialize |-> deserialize],
                       id |-> id, now |-> now,
                       replaced |-> (\E p \in points :
                                        p.id = id /\ p.payload.memory # memory.memory),
                       status |-> out.status, value |-> out.value,
                       written |-> out.written,
                       calls |-> out.calls, failed |-> out.failed]
            /\ UNCHANGED <<paging, procs, writes>>

\* get_user_memories(...): reads only.
ListCall(user_id, agent_id, team_id, topics, search_content, limit, page, sort_by, sort_order, deserialize, fail) ==
    LET out == get_user_memories(collection, points, user_id, agent_id, team_id,
                                 topics, search_content, limit, page,
                                 sort_by, sort_order, deserialize, fail)
    IN  /\ res' = [op |-> "get_user_memories",
                   args |-> [user_id |-> user_id, agent_id |-> agent_id,
                             team_id |-> team_id, topics |-> topics,
                             search_content |-> search_content,
                             limit |-> limit, page |-> page,
                             sort_by |-> sort_by, sort_order |-> sort_order,
                             deserialize |-> deserialize],
                   status |-> out.status, value |-> out.value,
                   calls |-> out.calls, failed |-> out.failed]
        /\ UNCHANGED <<collection, points, deleted, creates, procs, writes>>

GetUserMemories(user_id, agent_id, team_id, topics, search_content, limit, page, sort_by, sort_order, deserialize, fail) ==
    /\ ListCall(user_id, agent_id, team_id, topics, search_content, limit, page,
                sort_by, sort_order, deserialize, fail)
    /\ UNCHANGED paging

\* delete_user_memory, clear_memories and get_user_memory have the body
\* `pass`: no backend call, no change, None returned.
DeleteUserMemory(memory_id) ==
    /\ res' = [op |-> "delete_user_memory", args |-> [memory_id |-> memory_id],
               status |-> "returned", value |-> <<>>,
               calls |-> <<>>, failed |-> "none"]
    /\ deleted' = deleted \cup {memory_id}
    /\ UNCHANGED <<collection, points, paging, creates, procs, writes>>

ClearMemories ==
    /\ res' = [op |-> "clear_memories", args |-> <<>>,
               status |-> "returned", value |-> <<>>,
               calls |-> <<>>, failed |-> "none"]
    /\ UNCHANGED <<collection, points, deleted, paging, creates, procs, writes>>

GetUserMemory(memory_id) ==
    /\ res' = [op |-> "get_user_memory", args |-> [memory_id |-> memory_id],
               status |-> "returned", value |-> <<>>,
               calls |-> <<>>, failed |-> "none"]
    /\ UNCHANGED <<collection, points, deleted, paging, creates, procs, writes>>

\* _ensure_collection_exists(collection_name) for the memories collection.
EnsureCollectionExists(fail) ==
    LET out == _ensure_collection_exists(collection, fail)
    IN  /\ out.failed = "create_collection" => creates.failed < MaxCreateFailures
        /\ collection' = out.coll
        /\ creates' = CreatesAfter(out.calls, out.failed)
        /\ res' = [op |-> "_ensure_collection_exists", args |-> <<>>,
                   status |-> "returned", value |-> <<out.ok>>,
                   calls |-> out.calls, failed |-> out.failed]
        /\ UNCHANGED <<points, deleted, paging, procs, writes>>

\* ---------------------------------------------------------- specification
\* After construction: no collection, no point, no call made.
NoCall == [op |-> "__init__", args |-> <<>>, status |-> "returned",
           value |-> <<>>, calls |-> <<>>, failed |-> "none"]

NotPaging == [active |-> FALSE]

NoCreates == [issued |-> 0, failed |-> 0]

\* No concurrent call is running.
NoProcs == <<>>

Init ==
    /\ collection = FALSE
    /\ points = {}
    /\ deleted = {}
    /\ paging = NotPaging
    /\ creates = NoCreates
    /\ procs = NoProcs
    /\ writes = <<>>
    /\ res = NoCall

UpsertFailures == {"none", "embed", "get_collections", "create_collection",
                   "upsert", "create_payload_index"}
ScrollFailures == {"none", "count", "scroll"}
SearchFailures == {"none", "embed", "search", "count"}

OptionalIds == {<<>>} \cup { <<i>> : i \in MemoryIds }

Next ==
    \/ \E memory \in UserMemories, memory_id \in OptionalIds, fail \in UpsertFailures :
           UpsertUserMemory(memory, memory_id, 1, FALSE, fail)
    \/ \E user_id \in {None, "u1"}, limit \in {<<>>, <<1>>}, page \in {<<>>, <<2>>},
          fail \in ScrollFailures :
           GetUserMemories(user_id, None, None, NoTopics, None, limit, page,
                           None, None, FALSE, fail)
    \/ \E user_id \in {None, "u1"}, limit \in {<<>>, <<1>>}, page \in {<<>>, <<2>>},
          fail \in SearchFailures :
           GetUserMemories(user_id, None, None, NoTopics, "q1", limit, page,
                           None, None, FALSE, fail)
    \/ \E memory_id \in MemoryIds : DeleteUserMemory(memory_id)
    \/ ClearMemories
    \/ \E memory_id \in MemoryIds : GetUserMemory(memory_id)

Spec == Init /\ [][Next]_vars


\* ------------------------------------------------ queries on a given store
\* The point upsert_user_memory writes for a memory.
StoredPoint(memory, id, now) ==
    [id |-> id, vector |-> get_embedding(memory.memory),
     payload |-> data_of(memory, id, now)]

\* The stores upserts lead to: each id absent or holding one memory.
Stores ==
    { { StoredPoint(f[i][1], i, 1) : i \in { j \in MemoryIds : f[j] # <<>> } } :
        f \in [MemoryIds -> {<<>>} \cup { <<m>> : m \in UserMemories }] }

InitQuery ==
    /\ points \in Stores
    /\ collection \in BOOLEAN
    /\ points # {} => collection
    /\ deleted = {}
    /\ paging = NotPaging
    /\ creates = [issued |-> IF collection THEN 1 ELSE 0, failed |-> 0]
    /\ procs = NoProcs
    /\ writes = <<>>
    /\ res = NoCall

UserFilters == {None, "u1", "u2"}
AgentFilters == {None, "a1"}
TeamFilters == {None, "t1"}
TopicFilters == {NoTopics, <<>>, <<"health">>, <<"health", "finance">>}
Queries == {"q1", "q2"}
Limits == {<<>>} \cup { <<n>> : n \in 0..MaxLimit }
Pages == {<<>>} \cup { <<n>> : n \in 1..MaxPage }

\* One call of get_user_memories on the store, without or with search text.
ScrollOnce ==
    /\ res = NoCall
    /\ \E user_id \in UserFilters, agent_id \in AgentFilters, team_id \in TeamFilters,
          topics \in TopicFilters, limit \in Limits, page \in Pages,
          fail \in {"none", "scroll"} :
           GetUserMemories(user_id, agent_id, team_id, topics, None, limit, page,
                           None, None, FALSE, fail)

SearchOnce ==
    /\ res = NoCall
    /\ \E user_id \in UserFilters, agent_id \in AgentFilters, team_id \in TeamFilters,
          topics \in TopicFilters, search_content \in Queries,
          limit \in Limits, page \in Pages, fail \in {"none", "count"} :
           GetUserMemories(user_id, agent_id, team_id, topics, search_content,
                           limit, page, None, None, FALSE, fail)

NextQuery == ScrollOnce \/ SearchOnce

SpecQuery == InitQuery /\ [][NextQuery]_vars


\* ------------------------------------------------------- sorted queries
\* The stores upserts at two times lead to.
TimedStores ==
    { { StoredPoint(f[i][1], i, f[i][2]) : i \in { j \in MemoryIds : f[j] # <<>> } } :
        f \in [MemoryIds -> {<<>>} \cup { <<m, t>> : m \in { u \in UserMemories : u.user_id # "u2" },
                                                     t \in Times }] }

InitSort ==
    /\ points \in TimedStores
    /\ collection = TRUE
    /\ deleted = {}
    /\ paging = NotPaging
    /\ creates = [issued |-> 1, failed |-> 0]
    /\ procs = NoProcs
    /\ writes = <<>>
    /\ res = NoCall

\* The sort_by values: keys of the payload, and "input", a key no payload has.
SortFields == {"updated_at", "memory", "memory_id", "user_id", "topics", "input"}
SortOrders == {None, "asc", "desc"}

\* One call of get_user_memories with sort_by.
SortedOnce ==
    /\ res = NoCall
    /\ \E user_id \in {None, "u1"}, search_content \in {None, "q1"},
          limit \in {<<>>} \cup { <<n>> : n \in 1..MaxLimit },
          page \in {<<>>, <<1>>, <<2>>},
          sort_by \in SortFields, sort_order \in SortOrders :
           GetUserMemories(user_id, None, None, NoTopics, search_content, limit, page,
                           sort_by, sort_order, FALSE, "none")

SpecSort == InitSort /\ [][SortedOnce]_vars

\* ---------------------------------------------------------- memory_util.py
\* The names the module qdrant_db holds once loaded: its imports and its one
\* class.
qdrant_db_names ==
    {"time", "date", "Optional", "List", "Union", "Dict", "Any", "Tuple", "uuid4",
     "BaseDb", "SessionType", "CulturalKnowledge", "EvalRunRecord",
     "EvalFilterType", "EvalType", "KnowledgeRow", "FastEmbedEmbedder", "Session",
     "log_error", "log_info", "generate_id", "_build_filter_conditions",
     "_get_embedding", "_semantic_search", "_scroll_with_filters",
     "_apply_sorting", "generate_collection_name", "create_payload_indexes",
     "UserMemory", "QdrantClient", "models", "Distance", "VectorParams",
     "PointStruct", "QdrantDB"}

\* Loading memory_util runs `from src.semantic_memory.qdrant_db import
\* SemanticLongTermMemory`, which raises ImportError for a name the module
\* does not hold.
import_memory_util ==
    IF "SemanticLongTermMemory" \in qdrant_db_names THEN "loaded" ELSE "ImportError"

\* ShortTermMemory(time_to_live = 60): RedisDb(expire = time_to_live).
ShortTermMemory(time_to_live) ==
    [expire |-> IF time_to_live = <<>> THEN DefaultTimeToLive ELSE time_to_live[1]]

\* The entry the Redis store keeps for a value written at time t, and what a
\* read at time now gives: the store drops the entry at its deadline.
RedisSet(stm_db, value, t) == [value |-> value, deadline |-> t + stm_db.expire]

RedisGet(entry, now) == IF now < entry.deadline THEN <<entry.value>> ELSE <<>>

\* A caller loads memory_util, builds a ShortTermMemory, writes an entry at
\* time t and reads it back `wait` time units later.
ShortTermSession(time_to_live, key, value, t, wait) ==
    /\ res = NoCall
    /\ res' = IF import_memory_util = "ImportError"
              THEN [op |-> "ShortTermMemory",
                    args |-> [time_to_live |-> time_to_live, key |-> key,
                              value |-> value, t |-> t, wait |-> wait],
                    status |-> "raised", value |-> <<>>,
                    calls |-> <<>>, failed |-> "ImportError"]
              ELSE LET stm_db == ShortTermMemory(time_to_live)
                       entry  == RedisSet(stm_db, value, t)
                   IN  [op |-> "ShortTermMemory",
                        args |-> [time_to_live |-> time_to_live, key |-> key,
                                  value |-> value, t |-> t, wait |-> wait],
                        status |-> "returned", value |-> RedisGet(entry, t + wait),
                        calls |-> <<"set", "get">>, failed |-> "none"]
    /\ UNCHANGED <<collection, points, deleted, paging, creates, procs, writes>>

TimesToLive == {<<>>, <<1>>, <<2>>}
Waits == {0, 1, 2, 3, DefaultTimeToLive - 1, DefaultTimeToLive, DefaultTimeToLive + 1}

NextShortTerm ==
    \E time_to_live \in TimesToLive, key \in {"k1", "k2"}, t \in 0..MaxClock,
       wait \in Waits :
        ShortTermSession(time_to_live, key, "v1", t, wait)

SpecShortTerm == Init /\ [][NextShortTerm]_vars

\* ------------------------------------------------------ filter construction
\* _build_filter_conditions on its own, the empty string among its inputs.
BuildFilter(user_id, agent_id, team_id, topics) ==
    /\ res = NoCall
    /\ res' = [op |-> "_build_filter_conditions",
               args |-> [user_id |-> user_id, agent_id |-> agent_id,
                         team_id |-> team_id, topics |-> topics],
               status |-> "returned",
               value |-> _build_filter_conditions(user_id, agent_id, team_id, topics),
               calls |-> <<>>, failed |-> "none"]
    /\ UNCHANGED <<collection, points, deleted, paging, creates, procs, writes>>

NextFilter ==
    \E user_id \in UserFilters \cup {""}, agent_id \in AgentFilters \cup {""},
       team_id \in TeamFilters \cup {""}, topics \in TopicFilters \cup {<<"finance">>} :
        BuildFilter(user_id, agent_id, team_id, topics)

SpecFilter == Init /\ [][NextFilter]_vars

\* ------------------------------------------------------ page size, offset
\* Lines 310-311 of get_user_memories on their own, for limits and pages
\* beyond those the stores of the model can tell apart.
OffsetInputs == {<<>>} \cup { <<n>> : n \in -2..MaxOffsetInput }

ComputeOffset(limit, page) ==
    /\ res = NoCall
    /\ res' = [op |-> "offset", args |-> [limit |-> limit, page |-> page],
               status |-> "returned",
               value |-> <<[page_size |-> page_size_of(limit),
                            offset |-> offset_of(page, page_size_of(limit))]>>,
               calls |-> <<>>, failed |-> "none"]
    /\ UNCHANGED <<collection, points, deleted, paging, creates, procs, writes>>

NextOffset == \E limit \in OffsetInputs, page \in OffsetInputs : ComputeOffset(limit, page)

SpecOffset == Init /\ [][NextOffset]_vars

\* ------------------------------------------------------------ writes only
NextUpsert ==
    \/ \E memory \in UserMemories, memory_id \in OptionalIds, now \in Times,
          fail \in {"none", "upsert"} :
           UpsertUserMemory(memory, memory_id, now, FALSE, fail)
    \/ \E memory \in { m \in UserMemories : m.memory = "c1" },
          memory_id \in OptionalIds, now \in Times :
           UpsertUserMemory(memory, memory_id, now, TRUE, "none")

SpecUpsert == Init /\ [][NextUpsert]_vars

\* ----------------------------------------------------------- provisioning
\* Sequential calls of _ensure_collection_exists, alone and inside
\* upsert_user_memory, each with at most one backend call made to fail.
ProvisionFailures == {"none", "get_collections", "create_collection", "upsert"}

NextProvision ==
    \/ \E fail \in {"none", "get_collections", "create_collection"} :
           EnsureCollectionExists(fail)
    \/ \E memory \in UserMemories, memory_id \in OptionalIds, fail \in ProvisionFailures :
           UpsertUserMemory(memory, memory_id, 1, FALSE, fail)

SpecProvision == Init /\ [][NextProvision]_vars

\* ------------------------------------------------- the write path's steps
\* Sequential calls of upsert_user_memory, each with at most one step that
\* fails (or an embedder that yields no vector), and searches whose
\* embedding or backend call fails.
StoreFailures == UpsertFailures \cup {"no_vector"}

\* The memories written in these runs.
StoreMemories == { m \in UserMemories : m.user_id = "u1" }

NextStore ==
    \/ \E memory \in StoreMemories, memory_id \in OptionalIds, fail \in StoreFailures :
           UpsertUserMemory(memory, memory_id, 1, FALSE, fail)
    \/ \E memory \in { m \in StoreMemories : m.memory = "c1" },
          memory_id \in OptionalIds, fail \in {"none", "upsert", "create_payload_index"} :
           UpsertUserMemory(memory, memory_id, 1, TRUE, fail)
    \/ \E fail \in SearchFailures :
           GetUserMemories(None, None, None, NoTopics, "q1",
                           <<>>, <<>>, None, None, FALSE, fail)

SpecStore == Init /\ [][NextStore]_vars

\* ------------------------------------------------------ reading all pages
\* A caller reads one query page by page, page = 1, 2, 3, ... with a fixed
\* limit and no write in between, until a page comes back empty.
InitPaging ==
    /\ points \in Stores
    /\ collection = TRUE
    /\ deleted = {}
    /\ creates = [issued |-> 1, failed |-> 0]
    /\ procs = NoProcs
    /\ writes = <<>>
    /\ res = NoCall
    /\ \E user_id \in {None, "u1"}, topics \in {NoTopics, <<"health">>},
          search_content \in {None, "q1"}, limit \in 1..MaxLimit :
           paging = [active |-> TRUE, user_id |-> user_id, topics |-> topics,
                     search_content |-> search_content, limit |-> limit,
                     page |-> 1, read |-> <<>>, done |-> FALSE]

FetchPage ==
    /\ paging.active /\ ~paging.done /\ paging.page <= MaxPage + 1
    /\ ListCall(paging.user_id, None, None, paging.topics, paging.search_content,
                <<paging.limit>>, <<paging.page>>, None, None, FALSE, "none")
    /\ paging' = [paging EXCEPT !.page = @ + 1,
                                !.read = @ \o res'.value[1].memories,
                                !.done = (res'.value[1].memories = <<>>)]

SpecPaging == InitPaging /\ [][FetchPage]_vars


\* ------------------------------------------------------ concurrent upserts
\* Two callers run upsert_user_memory at the same time; each call advances by
\* one backend call at a time, the calls of the two in any order.
Callers == {1, 2}

\* A call of upsert_user_memory(memory) that has not begun.
NewCall(memory, memory_id) ==
    [pc |-> "begin", memory |-> memory, memory_id |-> memory_id, id |-> 0,
     now |-> 0, value |-> <<>>]

InitConcurrent ==
    /\ collection \in BOOLEAN
    /\ points = {}
    /\ deleted = {}
    /\ paging = NotPaging
    /\ creates = [issued |-> IF collection THEN 1 ELSE 0, failed |-> 0]
    /\ \E m1, m2 \in UserMemories, i1, i2 \in OptionalIds :
           /\ m1 # m2
           /\ procs = <<NewCall(m1, i1), NewCall(m2, i2)>>
    /\ writes = <<>>
    /\ res = NoCall

\* The ids of the other callers' records: no uuid4 equals one of them.
IdsOfOthers(p) ==
    { procs[q].id : q \in Callers \ {p} } \cup
    { procs[q].memory_id[1] : q \in { r \in Callers \ {p} : procs[r].memory_id # <<>> } }

\* The point and the payload caller p writes.
DataOf(p) == data_of(procs[p].memory, procs[p].id, procs[p].now)

PointWritten(p) ==
    [id |-> procs[p].id, vector |-> get_embedding(procs[p].memory.memory),
     payload |-> DataOf(p)]

\* upsert_user_memory up to the call of _store_record: the id, the payload
\* with the time read from the clock (no earlier than a time read before),
\* the embedding.
UpsertBegin(p) ==
    /\ procs # NoProcs /\ procs[p].pc = "begin"
    /\ \E id \in (IF procs[p].memory_id = <<>>
                  THEN MemoryIds \ (Ids(points) \cup IdsOfOthers(p))
                  ELSE {procs[p].memory_id[1]}),
          now \in { t \in Times : \A q \in Callers : procs[q].now <= t } :
           procs' = [procs EXCEPT ![p] = [@ EXCEPT !.pc = "get_collections",
                                                   !.id = id, !.now = now]]
    /\ UNCHANGED <<collection, points, deleted, paging, creates, writes, res>>

\* _ensure_collection_exists, its first call: the list of collections.
EnsureGetCollections(p) ==
    /\ procs # NoProcs /\ procs[p].pc = "get_collections"
    /\ procs' = [procs EXCEPT ![p].pc = IF collection THEN "upsert"
                                        ELSE "create_collection"]
    /\ UNCHANGED <<collection, points, deleted, paging, creates, writes, res>>

\* A faulty create step: the call whose create_collection the backend
\* refuses gives up and returns None without writing its point.
create_refusal_ending_the_call(p) ==
    /\ procs # NoProcs /\ procs[p].pc = "create_collection"
    /\ collection' = TRUE
    /\ creates' = [issued |-> creates.issued + 1,
                   failed |-> creates.failed + (IF collection THEN 1 ELSE 0)]
    /\ procs' = [procs EXCEPT ![p].pc = IF collection THEN "done" ELSE "upsert"]
    /\ UNCHANGED <<points, deleted, paging, writes, res>>

\* _ensure_collection_exists, its second call: create_collection, which the
\* backend refuses for a name it holds; the exception is logged, False
\* returned and not looked at by _store_record.
EnsureCreateCollection(p) ==
    /\ procs # NoProcs /\ procs[p].pc = "create_collection"
    /\ collection' = TRUE
    /\ creates' = [issued |-> creates.issued + 1,
                   failed |-> creates.failed + (IF collection THEN 1 ELSE 0)]
    /\ procs' = [procs EXCEPT ![p].pc = "upsert"]
    /\ UNCHANGED <<points, deleted, paging, writes, res>>

\* _store_record, the point write; on a missing collection it raises, False
\* is returned and upsert_user_memory returns None.
StoreUpsertPoint(p) ==
    /\ procs # NoProcs /\ procs[p].pc = "upsert"
    /\ IF collection
       THEN /\ points' = QdrantUpsert(points, PointWritten(p))
            /\ writes' = Append(writes, p)
            /\ procs' = [procs EXCEPT ![p].pc = "create_payload_index"]
       ELSE /\ procs' = [procs EXCEPT ![p].pc = "done"]
            /\ UNCHANGED <<points, writes>>
    /\ UNCHANGED <<collection, deleted, paging, creates, res>>

\* _store_record, the payload indexes, and the return of the payload.
StoreCreateIndexes(p) ==
    /\ procs # NoProcs /\ procs[p].pc = "create_payload_index"
    /\ procs' = [procs EXCEPT ![p] = [@ EXCEPT !.pc = "done",
                                                   !.value = <<DataOf(p)>>]]
    /\ UNCHANGED <<collection, points, deleted, paging, creates, writes, res>>

NextConcurrent ==
    \/ \E p \in Callers : UpsertBegin(p)
    \/ \E p \in Callers : EnsureGetCollections(p)
    \/ \E p \in Callers : EnsureCreateCollection(p)
    \/ \E p \in Callers : StoreUpsertPoint(p)
    \/ \E p \in Callers : StoreCreateIndexes(p)

SpecConcurrent == InitConcurrent /\ [][NextConcurrent]_vars


\* ================================================================== claims
\* What the last call of get_user_memories (a tuple result) returned.
IsList == res.op = "get_user_memories" /\ res.status = "returned"
Returned == res.value[1].memories
ReturnedIds == { Returned[i].memory_id : i \in 1..Len(Returned) }
Searching == res.args.search_content # None

\* A payload matches the arguments of a call: every supplied tenant field is
\* equal, and a supplied non-empty topics list shares a topic with it.
ExpectedMatch(payload, args) ==
    /\ args.user_id # None => payload.user_id = args.user_id
    /\ args.agent_id # None => payload.agent_id = args.agent_id
    /\ args.team_id # None => payload.team_id = args.team_id
    /\ (args.topics # NoTopics /\ args.topics # <<>>) =>
           /\ payload.topics # NoTopics
           /\ SeqRange(payload.topics) \cap SeqRange(args.topics) # {}

ExpectedPayloads(args) ==
    { p.payload : p \in { q \in points : ExpectedMatch(q.payload, args) } }

\* C3 (filter correctness): without search text, on the first page and with a
\* limit of at least the number of stored records, a call none of whose
\* backend calls is made to fail returns exactly the stored records that equal every supplied
\* tenant field and share a topic with a supplied non-empty topics list, each
\* once.
C3_FilterCorrectness ==
    ( /\ IsList /\ ~Searching /\ (res.failed = "none" \/ ~collection)
      /\ res.args.page \in {<<>>, <<1>>}
      /\ (res.args.limit = <<>> \/ res.args.limit[1] >= Cardinality(points)) )
    => /\ SeqRange(Returned) = ExpectedPayloads(res.args)
       /\ Len(Returned) = Cardinality(ExpectedPayloads(res.args))

\* A filter on a tenant field and on topics kept one stored record and
\* excluded another.
C3_Witness ==
    /\ IsList /\ ~Searching /\ res.failed = "none"
    /\ res.args.page = <<>> /\ res.args.limit = <<MaxLimit>>
    /\ res.args.agent_id # None /\ res.args.topics = <<"health">>
    /\ Len(Returned) = 1
    /\ Cardinality(points) = 2

\* C4 (total count): the total_count of a call none of whose backend calls is
\* made to fail is the number of stored records matching the filter, for every limit and
\* page, without and with search text.
C4_TotalCountExact ==
    (IsList /\ ~res.args.deserialize /\ (res.failed = "none" \/ ~collection))
    => res.value[1].total_count = <<Cardinality(ExpectedPayloads(res.args))>>

\* A search returned a page of one record and a total count of two.
C4_Witness ==
    /\ IsList /\ Searching /\ res.failed = "none"
    /\ res.args.user_id = "u1"
    /\ Len(Returned) = 1
    /\ res.value[1].total_count = <<2>>


\* The page size and offset of the last call, and the full ranked list of its
\* filter: every matching point by descending score.
LastPageSize == page_size_of(res.args.limit)
LastOffset == offset_of(res.args.page, LastPageSize)
FullRanked ==
    Payloads(Ranked({ p \in points : ExpectedMatch(p.payload, res.args) },
                    _get_embedding(res.args.search_content)))

\* The same call one page further.
NextPageIds ==
    LET nxt == get_user_memories(collection, points, res.args.user_id,
                   res.args.agent_id, res.args.team_id, res.args.topics,
                   res.args.search_content, res.args.limit,
                   <<res.args.page[1] + 1>>, res.args.sort_by, res.args.sort_order,
                   FALSE, "none").value[1].memories
    IN  { nxt[i].memory_id : i \in 1..Len(nxt) }

\* C10 (pagination of ranked search): with search text, offset o and limit l,
\* the page is the items at positions o .. o+l-1 of the full ranked list of
\* the filter, so it has at most l items and shares none with the next page.
C10_RankedPage ==
    (IsList /\ Searching /\ res.failed = "none" /\ res.args.sort_by = None)
    => /\ Returned = Slice(FullRanked, LastOffset, LastOffset + LastPageSize)
       /\ Len(Returned) <= LastPageSize
       /\ res.args.page # <<>> => ReturnedIds \cap NextPageIds = {}

\* The second page of one record, out of two ranked records.
C10_Witness ==
    /\ IsList /\ Searching /\ res.failed = "none"
    /\ res.args.limit = <<1>> /\ res.args.page = <<2>>
    /\ Len(FullRanked) = 2
    /\ Returned = <<FullRanked[2]>>

SearchCalls == { i \in 1..Len(res.calls) : res.calls[i] = "search" }

\* --- Reciprocal Rank Fusion, as the specification words it ---
\* A lexical (sparse) score of a content for a query.
SparseScore(q, content) ==
    CASE q = "q1" /\ content = "c2" -> 2
      [] q = "q2" /\ content = "c1" -> 2
      [] OTHER -> 1

RECURSIVE SparseRanked(_, _)
SparseRanked(S, q) ==
    IF S = {} THEN <<>>
    ELSE LET best == CHOOSE p \in S : \A o \in S :
                         \/ SparseScore(q, p.payload.memory) > SparseScore(q, o.payload.memory)
                         \/ /\ SparseScore(q, p.payload.memory) = SparseScore(q, o.payload.memory)
                            /\ p.id <= o.id
         IN  <<best>> \o SparseRanked(S \ {best}, q)

\* The 1-based ranks of id in the lists that hold it.
RanksOf(id, lists) ==
    { <<k, i>> \in (1..Len(lists)) \X (1..MaxIds) :
          i <= Len(lists[k]) /\ lists[k][i].id = id }

\* sum of 1/(rank + k) as a fraction <<numerator, denominator>> (two lists).
FusedScore(id, lists) ==
    LET rs == { pr[2] : pr \in RanksOf(id, lists) }
        r1 == CHOOSE r \in rs : TRUE
        r2 == CHOOSE r \in rs : \A o \in rs : r >= o
        n  == Cardinality(RanksOf(id, lists))
        RRF_K == 60
    IN  IF n = 0 THEN <<0, 1>>
        ELSE IF n = 1 THEN <<1, r1 + RRF_K>>
        ELSE LET a == (CHOOSE pr \in RanksOf(id, lists) : pr[1] = 1)[2]
                 b == (CHOOSE pr \in RanksOf(id, lists) : pr[1] = 2)[2]
             IN  <<(a + RRF_K) + (b + RRF_K), (a + RRF_K) * (b + RRF_K)>>

FractionGreater(x, y) == x[1] * y[2] > y[1] * x[2]

\* The fused list: descending fused score, then more lists, then id.
RECURSIVE Fused(_, _)
Fused(S, lists) ==
    IF S = {} THEN <<>>
    ELSE LET Before(a, b) ==
                 \/ FractionGreater(FusedScore(a, lists), FusedScore(b, lists))
                 \/ /\ FusedScore(a, lists) = FusedScore(b, lists)
                    /\ \/ Cardinality(RanksOf(a, lists)) > Cardinality(RanksOf(b, lists))
                       \/ /\ Cardinality(RanksOf(a, lists)) = Cardinality(RanksOf(b, lists))
                          /\ a <= b
             best == CHOOSE a \in S : \A b \in S : a = b \/ Before(a, b)
         IN  <<best>> \o Fused(S \ {best}, lists)

HybridPage ==
    LET M == { p \in points : ExpectedMatch(p.payload, res.args) }
        K == LastPageSize + LastOffset
        dense  == Take(Ranked(M, _get_embedding(res.args.search_content)), K)
        sparse == Take(SparseRanked(M, res.args.search_content), K)
        both   == <<dense, sparse>>
        ids    == Fused({ p.id : p \in SeqRange(dense) \cup SeqRange(sparse) }, both)
    IN  Slice([i \in 1..Len(ids) |-> PointOf(points, ids[i]).payload],
              LastOffset, LastOffset + LastPageSize)

\* C9 as stated (hybrid fusion): with query text the call runs a dense and a
\* sparse similarity search under the same filter and returns the results in
\* the order of their Reciprocal Rank Fusion scores (k = 60).
C9_HybridFusion ==
    (IsList /\ Searching /\ res.failed = "none" /\ res.args.sort_by = None)
    => /\ Cardinality(SearchCalls) = 2
       /\ Returned = HybridPage

\* The stored points of an id.
PointsOf(id) == { p \in points : p.id = id }

IsUpsert == res.op = "upsert_user_memory"

\* C1 (idempotent upsert): after a successful upsert_user_memory with an id
\* that held a record of another content, the collection holds exactly one
\* record of that id, and its payload is that of this call in full: content,
\* tenant ids, topics, id and time, and no other key.
C1_IdempotentUpsert ==
    (IsUpsert /\ res.status = "returned" /\ res.value # <<>> /\ res.replaced)
    => /\ Cardinality(PointsOf(res.id)) = 1
       /\ \A p \in PointsOf(res.id) :
              /\ p.payload.memory = res.args.memory.memory
              /\ p.payload.user_id = res.args.memory.user_id
              /\ p.payload.agent_id = res.args.memory.agent_id
              /\ p.payload.team_id = res.args.memory.team_id
              /\ p.payload.topics = res.args.memory.topics
              /\ p.payload.memory_id = res.id
              /\ p.payload.updated_at = res.now
              /\ DOMAIN p.payload = {"user_id", "agent_id", "team_id", "memory_id",
                                     "memory", "topics", "updated_at"}
              /\ p.vector = get_embedding(res.args.memory.memory)

\* A second upsert of id 1 replaced a record of another content, other
\* topics and other tenant ids; another id is stored beside it.
C1_Witness ==
    /\ IsUpsert /\ res.status = "returned" /\ res.value # <<>> /\ res.replaced
    /\ res.args.memory_id = <<1>>
    /\ res.args.memory.topics = NoTopics
    /\ res.now = 2
    /\ Cardinality(points) = 2

\* C2 as stated (deletion): once delete_user_memory(m) has returned and until
\* m is upserted again, get_user_memory(m) returns not-found and no
\* get_user_memories result holds m.
C2_Deletion ==
    /\ (res.op = "get_user_memory" /\ res.args.memory_id \in deleted)
           => (res.status = "returned" /\ res.value = <<>>)
    /\ IsList => ReturnedIds \cap deleted = {}

\* C5 as stated (page reconstruction): the pages read so far hold no record
\* twice, and once a page comes back empty they hold every stored record
\* matching the filter.
C5_PageReconstruction ==
    paging.active =>
        /\ \A i, j \in 1..Len(paging.read) : i # j => paging.read[i] # paging.read[j]
        /\ paging.done =>
               SeqRange(paging.read) =
                   ExpectedPayloads([user_id |-> paging.user_id, agent_id |-> None,
                                     team_id |-> None, topics |-> paging.topics])

\* C6 as stated (failures re-raised): when the point upsert, the search, the
\* scroll or the count of an existing collection fails during
\* upsert_user_memory or get_user_memories, the operation raises.
C6_FailuresRaised ==
    ( /\ res.op \in {"upsert_user_memory", "get_user_memories"}
      /\ collection
      /\ res.failed \in {"upsert", "search", "scroll", "count"} )
    => res.status = "raised"

\* C7 as stated (get by id): get_user_memory(m) returns the stored record of
\* m when there is one, and None without raising when there is none.
C7_GetById ==
    res.op = "get_user_memory" =>
        /\ res.status = "returned"
        /\ \A p \in PointsOf(res.args.memory_id) :
               res.value \in {<<p.payload>>, <<from_dict(p.payload)>>}
        /\ PointsOf(res.args.memory_id) = {} => res.value = <<>>

\* C8 as stated (clear): when clear_memories has returned the collection
\* holds no record, and get_user_memories without a filter returns an empty
\* list and total_count 0.
C8_Clear ==
    res.op = "clear_memories" =>
        /\ points = {}
        /\ get_user_memories(collection, points, None, None, None, NoTopics, None,
                             <<>>, <<>>, None, None, FALSE, "none").value
               = <<[memories |-> <<>>, total_count |-> <<0>>]>>

IsEnsure == res.op = "_ensure_collection_exists"

\* The create_collection calls the backend carried out.
CreatesDone == creates.issued - creates.failed

\* C11, its state part: every call lists the collections first; the creates
\* carried out are one when the collection exists and none when it does not,
\* so never two; and while no create has failed, create was issued at most
\* once.
C11_OneCollection ==
    /\ IsEnsure => (res.calls # <<>> /\ res.calls[1] = "get_collections")
    /\ CreatesDone = (IF collection THEN 1 ELSE 0)
    /\ creates.failed = 0 => creates.issued <= 1
    /\ (IsEnsure /\ res.failed = "none") => (collection /\ res.value = <<TRUE>>)

\* C11, its step part: a call that finds the collection issues no create and
\* changes nothing; a call that does not find it issues exactly one create.
C11_EnsureStep ==
    IsEnsure' =>
        /\ collection =>
               /\ res'.calls = <<"get_collections">>
               /\ UNCHANGED <<collection, points, creates>>
        /\ (~collection /\ res'.failed # "get_collections") =>
               /\ res'.calls = <<"get_collections", "create_collection">>
               /\ creates'.issued = creates.issued + 1

\* C11 (idempotent provisioning): _ensure_collection_exists re-checks the
\* backend on every call; when the collection exists it issues no create and
\* changes nothing, otherwise it issues one create; after any sequence of
\* calls the backend holds one collection, created once.
C11_IdempotentProvisioning == []C11_OneCollection /\ [][C11_EnsureStep]_vars

\* A call found the collection an earlier call had created, after points
\* were written to it.
C11_Witness ==
    /\ IsEnsure /\ res.calls = <<"get_collections">> /\ res.value = <<TRUE>>
    /\ creates.issued = 1 /\ collection
    /\ points # {}

\* C12 as stated (provisioning errors surface): when get_collections or
\* create_collection fails inside upsert_user_memory, the call raises and
\* attempts no point write.
C12_ProvisioningErrorsSurface ==
    (IsUpsert /\ res.failed \in {"get_collections", "create_collection"})
    => /\ res.status = "raised"
       /\ "upsert" \notin SeqRange(res.calls)

\* C13, its state part: the record a successful upsert returns has the id of
\* the point written, which is the caller's id when the caller gave one, and
\* the updated_at of that point's payload; every stored payload holds the id
\* of its point.
C13_ReturnedIdAndTime ==
    /\ \A p \in points : p.payload.memory_id = p.id
    /\ (IsUpsert /\ res.status = "returned" /\ res.value # <<>>) =>
           /\ res.args.memory_id # <<>> => res.id = res.args.memory_id[1]
           /\ res.value[1].memory_id = res.id
           /\ res.value[1].updated_at = res.now
           /\ Cardinality(PointsOf(res.id)) = 1
           /\ \A p \in PointsOf(res.id) :
                  /\ p.payload.memory_id = res.value[1].memory_id
                  /\ p.payload.updated_at = res.value[1].updated_at

\* C13, its step part: the id assigned to a record that came without one is
\* the id of no stored point, and the call changes the id of no stored point.
C13_FreshIdStep ==
    IsUpsert' =>
        /\ res'.args.memory_id = <<>> => res'.id \notin Ids(points)
        /\ Ids(points) \subseteq Ids(points')
        /\ Ids(points') \subseteq Ids(points) \cup {res'.id}

\* C13 (id assignment and immutability): upsert_user_memory assigns a fresh
\* memory_id only to a record that has none and never changes a given one,
\* and the record it returns holds the id and the updated_at of the point
\* written.
C13_IdAssignment == []C13_ReturnedIdAndTime /\ [][C13_FreshIdStep]_vars

\* A record without id was stored beside an older record and returned as a
\* UserMemory holding the assigned id and the time of the write.
C13_Witness ==
    /\ IsUpsert /\ res.status = "returned" /\ res.value # <<>>
    /\ res.args.memory_id = <<>> /\ res.args.deserialize
    /\ res.id = 2 /\ res.now = 2
    /\ \E p \in points : p.id = 1 /\ p.payload.updated_at = 1

\* What the last call of get_user_memories returns when made without sort_by.
Unsorted ==
    get_user_memories(collection, points, res.args.user_id, res.args.agent_id,
                      res.args.team_id, res.args.topics, res.args.search_content,
                      res.args.limit, res.args.page, None, None, FALSE,
                      "none").value[1]

Sorting == res.args.sort_by # None

\* C14 (sort after paginate): a call with sort_by returns the records the
\* same call without sort_by returns, each as often, and the same total_count.
C14_SortAfterPaginate ==
    (IsList /\ Sorting /\ res.failed = "none") =>
        /\ Len(Returned) = Len(Unsorted.memories)
        /\ SeqRange(Returned) = SeqRange(Unsorted.memories)
        /\ \A i, j \in 1..Len(Returned) : i # j => Returned[i] # Returned[j]
        /\ res.value[1].total_count = Unsorted.total_count

\* A page of one record out of two stored, its order changed by the sort had
\* the sort come first: the record selected is the first by id although the
\* other one is first by updated_at.
C14_Witness ==
    /\ IsList /\ Sorting /\ res.failed = "none"
    /\ res.args.sort_by = "updated_at" /\ res.args.limit = <<1>>
    /\ ~Searching /\ res.args.user_id = None
    /\ Cardinality(points) = 2
    /\ Len(Returned) = 1 /\ Returned[1].memory_id = 1
    /\ \E p \in points : p.payload.updated_at < Returned[1].updated_at

\* The order of the last call: descending exactly when sort_order is "desc".
Descending == res.args.sort_order = "desc"

\* Record a belongs before record b in the order by sort_by; a record with
\* no value for the field (None) counts as holding the least value.
KeyBefore(a, b, sort_by) ==
    IF SortKeyType(a, sort_by) = "NoneType" THEN SortKeyType(b, sort_by) # "NoneType"
    ELSE IF SortKeyType(b, sort_by) = "NoneType" THEN FALSE
    ELSE SortKeyLess(a, b, sort_by)

\* The records are in the order of the last call: no record stands after one
\* it belongs before.
InSortOrder(records) ==
    \A i, j \in 1..Len(records) :
        i < j => IF Descending
                 THEN ~KeyBefore(records[i], records[j], res.args.sort_by)
                 ELSE ~KeyBefore(records[j], records[i], res.args.sort_by)

\* The sort keys of the page can be compared with one another: one record,
\* or keys of one type none of which is None.
KeysComparable(records) ==
    LET types == { SortKeyType(records[i], res.args.sort_by) : i \in 1..Len(records) }
    IN  Len(records) <= 1 \/ (Cardinality(types) = 1 /\ "NoneType" \notin types)

\* C19 as stated (sort direction): with sort_by the page is ordered by that
\* field, ascending unless sort_order is "desc", also when records of the
\* page hold no value or a value of another type for the field.
C19_SortDirection ==
    (IsList /\ Sorting /\ res.failed = "none") => InSortOrder(Returned)

\* C19 as amended: with sort_by, a page whose sort keys can be compared with
\* one another is ordered by that field, ascending unless sort_order is
\* "desc", records of equal keys in their order of retrieval; a page holding
\* a None key or keys of two types is returned in its order of retrieval.
C19_SortComparableKeys ==
    (IsList /\ Sorting /\ res.failed = "none") =>
        /\ KeysComparable(Unsorted.memories) =>
               /\ InSortOrder(Returned)
               /\ \A i, j \in 1..Len(Returned) :
                      ( /\ i < j
                        /\ ~KeyBefore(Returned[i], Returned[j], res.args.sort_by)
                        /\ ~KeyBefore(Returned[j], Returned[i], res.args.sort_by) )
                      => \E k, l \in 1..Len(Unsorted.memories) :
                             /\ k < l
                             /\ Unsorted.memories[k] = Returned[i]
                             /\ Unsorted.memories[l] = Returned[j]
        /\ ~KeysComparable(Unsorted.memories) => Returned = Unsorted.memories

\* A descending sort by updated_at put the later record first, against the
\* order of retrieval.
C19_Witness ==
    /\ IsList /\ Sorting /\ res.failed = "none"
    /\ res.args.sort_by = "updated_at" /\ Descending
    /\ Len(Returned) = 2
    /\ Returned[1].updated_at > Returned[2].updated_at
    /\ Returned[1].memory_id > Returned[2].memory_id

\* C15 as stated (TTL expiry): an entry written into a ShortTermMemory of
\* time-to-live T (60 when not given) is returned by a read less than T after
\* the write and is not found by a read more than T after it.
C15_TTLExpiry ==
    res.op = "ShortTermMemory" =>
        LET T == IF res.args.time_to_live = <<>> THEN 60
                 ELSE res.args.time_to_live[1]
        IN  /\ res.status = "returned"
            /\ res.args.wait < T => res.value = <<res.args.value>>
            /\ res.args.wait > T => res.value = <<>>

AllDone == procs # NoProcs /\ \A p \in Callers : procs[p].pc = "done"

SameId == procs[1].id = procs[2].id

\* C16 (last write wins): while two calls for one memory_id run, every stored
\* point is, whole, the point one of the calls wrote (id, vector and every
\* payload field), and when both have returned the collection holds exactly
\* one record of the id: the point of the call whose write came last.
C16_LastWriteWins ==
    procs # NoProcs =>
        /\ \A q \in points : \E p \in Callers : q = PointWritten(p)
        /\ (AllDone /\ SameId) =>
               /\ Len(writes) = 2
               /\ points = { PointWritten(writes[Len(writes)]) }
               /\ Cardinality(PointsOf(procs[1].id)) = 1

\* Both calls have returned their records; the call that read the clock
\* first wrote last, so the stored record is the one of the older time and
\* of another content than the record it replaced.
C16_Witness ==
    /\ AllDone /\ SameId
    /\ writes = <<2, 1>>
    /\ procs[1].now < procs[2].now
    /\ procs[1].memory.memory # procs[2].memory.memory
    /\ \A p \in Callers : procs[p].value # <<>>
    /\ \A q \in points : q.payload.updated_at = procs[1].now

NoMemories == <<[memories |-> <<>>, total_count |-> <<0>>]>>

\* C17, its state part: a call made while the collection does not exist
\* returns an empty list and total_count 0 without raising and without a
\* call that provisions; so does a call whose filter no stored record
\* matches.
C17_EmptyResult ==
    /\ (res.op = "get_user_memories" /\ ~collection) =>
           /\ res.status = "returned"
           /\ res.value = NoMemories
           /\ SeqRange(res.calls) \cap {"get_collections", "create_collection"} = {}
    /\ (res.op = "get_user_memories" /\ collection /\ res.failed = "none"
           /\ ExpectedPayloads(res.args) = {}) =>
           /\ res.status = "returned"
           /\ res.value = NoMemories

\* C17, its step part: get_user_memories leaves the backend as it is: a
\* missing collection stays missing.
C17_ReadStep ==
    (res'.op = "get_user_memories") => UNCHANGED <<collection, points, creates>>

\* C17 (unprovisioned read): before the collection exists get_user_memories
\* returns an empty list and total_count 0, with or without search text,
\* raises nothing and does not create the collection; a filter matching no
\* record gives the same result.
C17_UnprovisionedRead == []C17_EmptyResult /\ [][C17_ReadStep]_vars

\* A search with text on a backend without the collection came back empty,
\* the collection still missing.
C17_Witness ==
    /\ res.op = "get_user_memories" /\ ~collection
    /\ res.args.search_content = "q1"
    /\ res.calls = <<"embed", "search">>
    /\ res.status = "returned" /\ res.value = NoMemories

IsOffset == res.op = "offset"

\* The page size the claim names: the limit, or 100 when the limit is absent.
ClaimedPageSize == IF res.args.limit = <<>> THEN 100 ELSE res.args.limit[1]

\* C18 as stated (offset computation): the offset is (page - 1) * limit when
\* page is given, page = 0 included, and 0 when page is absent; it is never
\* negative.
C18_OffsetAsStated ==
    IsOffset =>
        /\ res.args.page # <<>> =>
               res.value[1].offset = (res.args.page[1] - 1) * ClaimedPageSize
        /\ res.args.page = <<>> => res.value[1].offset = 0
        /\ res.value[1].offset >= 0

\* An absent value or 0: what Python's `or` and `if` take for false.
Falsy(opt) == opt = <<>> \/ opt = <<0>>

\* C18 as amended: the page size is the limit, or 100 when the limit is
\* absent or 0; the offset is (page - 1) * page size when page is given and
\* not 0, and 0 when page is absent or 0; for a page and a limit that are not
\* negative the offset is not negative.
C18_OffsetComputation ==
    IsOffset =>
        /\ res.value[1].page_size =
               (IF Falsy(res.args.limit) THEN 100 ELSE res.args.limit[1])
        /\ ~Falsy(res.args.page) =>
               res.value[1].offset = (res.args.page[1] - 1) * res.value[1].page_size
        /\ Falsy(res.args.page) => res.value[1].offset = 0
        /\ ( /\ (res.args.page = <<>> \/ res.args.page[1] >= 0)
             /\ (res.args.limit = <<>> \/ res.args.limit[1] >= 0) )
           => res.value[1].offset >= 0

\* Page 0 with a limit of 2: the offset is 0, not -2.
C18_Witness ==
    /\ IsOffset
    /\ res.args.page = <<0>> /\ res.args.limit = <<2>>
    /\ res.value[1].offset = 0

IsFilter == res.op = "_build_filter_conditions"

\* The conditions of the filter the last call built, and those on one key.
Conditions == res.value[1].must
ConditionsOn(key) == { i \in 1..Len(Conditions) : Conditions[i].key = key }

TenantFields == {"user_id", "agent_id", "team_id"}

TopicsSupplied == res.args.topics # NoTopics /\ res.args.topics # <<>>

\* C20 (filter construction): the filter is absent exactly when the three
\* tenant fields are absent and topics is absent or empty; otherwise it is a
\* conjunction (must, and nothing else) of one equality condition per
\* tenant field supplied, one match-any condition for a non-empty topics
\* list, and no other condition.
C20_FilterConstruction ==
    IsFilter =>
        /\ res.value = <<>> <=>
               ((\A f \in TenantFields : res.args[f] = None) /\ ~TopicsSupplied)
        /\ res.value # <<>> =>
               /\ DOMAIN res.value[1] = {"must"}
               /\ \A f \in TenantFields :
                      /\ Cardinality(ConditionsOn(f)) = (IF res.args[f] # None THEN 1 ELSE 0)
                      /\ \A i \in ConditionsOn(f) :
                             Conditions[i] = [key |-> f, kind |-> "MatchValue",
                                              value |-> res.args[f]]
               /\ Cardinality(ConditionsOn("topics")) = (IF TopicsSupplied THEN 1 ELSE 0)
               /\ \A i \in ConditionsOn("topics") :
                      Conditions[i] = [key |-> "topics", kind |-> "MatchAny",
                                       any |-> res.args.topics]
               /\ \A i \in 1..Len(Conditions) :
                      Conditions[i].key \in TenantFields \cup {"topics"}

\* A filter of two conditions: equality on an agent_id that is the empty
\* string, and match-any on two topics; user_id and team_id absent, no
\* condition for them.
C20_Witness ==
    /\ IsFilter
    /\ res.args.user_id = None /\ res.args.team_id = None
    /\ res.args.agent_id = ""
    /\ res.args.topics = <<"health", "finance">>
    /\ res.value # <<>> /\ Len(res.value[1].must) = 2

\* The positions of the backend call `name` in the last operation's calls.
CallsAt(name) == { i \in 1..Len(res.calls) : res.calls[i] = name }

EnsureCalls == CallsAt("get_collections") \cup CallsAt("create_collection")

\* C21 (step order inside one upsert): every upsert_user_memory computes the
\* embedding first and once; the collection is ensured after it (the list,
\* then the create); the point is written at most once, after the embedding
\* has completed and after every call of the ensure step, which has run; the
\* payload indexes are created after the point write only; a call none of
\* whose steps fails makes exactly embed, get_collections, (create_collection,)
\* upsert and one create_payload_index per index field, in this order.
C21_StepOrder ==
    IsUpsert =>
        /\ res.calls # <<>> /\ res.calls[1] = "embed"
        /\ Count(res.calls, "embed") = 1
        /\ Count(res.calls, "upsert") <= 1
        /\ \A c \in CallsAt("create_collection") :
               \E g \in CallsAt("get_collections") : g < c
        /\ \A w \in CallsAt("upsert") :
               /\ res.failed # "embed" /\ 1 < w
               /\ CallsAt("get_collections") # {}
               /\ \A e \in EnsureCalls : 1 < e /\ e < w
        /\ \A x \in CallsAt("create_payload_index") :
               \E w \in CallsAt("upsert") : w < x
        /\ res.failed = "none" =>
               \/ res.calls = <<"embed", "get_collections", "upsert">> \o
                              [i \in 1..Len(IndexFields) |-> "create_payload_index"]
               \/ res.calls = <<"embed", "get_collections", "create_collection",
                                "upsert">> \o
                              [i \in 1..Len(IndexFields) |-> "create_payload_index"]

\* A first write: embedding, list, create, point write and the four payload
\* indexes, and the record stored.
C21_Witness ==
    /\ IsUpsert /\ res.failed = "none" /\ res.value # <<>>
    /\ res.calls = <<"embed", "get_collections", "create_collection", "upsert",
                     "create_payload_index", "create_payload_index",
                     "create_payload_index", "create_payload_index">>
    /\ PointsOf(res.id) # {}

\* The last upsert_user_memory got no vector (None) from the embedder: the
\* one case in which PointStruct refuses the point.
NoVector == IsUpsert /\ res.failed = "PointStruct"

\* The vector of zeros, of the embeddings' size.
ZeroVector == [i \in 1..Len(get_embedding("c1")) |-> 0]

\* C22 as stated (missing vector): when the embedding step yields no vector,
\* _store_record writes the record with a zero vector, upsert_user_memory
\* returns the record, and get_user_memories returns it afterwards.
C22_MissingVector ==
    NoVector =>
        /\ res.status = "returned" /\ res.value # <<>>
        /\ \E p \in PointsOf(res.id) :
               /\ p.vector = ZeroVector
               /\ p.payload = data_of(res.args.memory, res.id, res.now)
        /\ \E i \in 1..Len(get_user_memories(collection, points, None, None, None,
                                             NoTopics, None, <<>>, <<>>, None, None,
                                             FALSE, "none").value[1].memories) :
               get_user_memories(collection, points, None, None, None, NoTopics,
                                 None, <<>>, <<>>, None, None, FALSE,
                                 "none").value[1].memories[i].memory_id = res.id

\* The last operation is one whose embedding step raised.
EmbeddingFailed ==
    /\ res.op \in {"upsert_user_memory", "get_user_memories"}
    /\ res.failed = "embed"

\* C23, its state part: a call whose embedding raised has raised to its
\* caller, returned nothing, and made no backend call after the embedding:
\* no ensure, no point write, no search, no count.
C23_Raised ==
    EmbeddingFailed =>
        /\ res.status = "raised" /\ res.value = <<>>
        /\ res.calls = <<"embed">>
        /\ IsUpsert => ~res.written

\* C23, its step part: such a call leaves the collection and the stored
\* records as they were.
C23_StoreUnchanged ==
    EmbeddingFailed' => UNCHANGED <<collection, points, creates>>

\* C23 (embedding failure propagates): when the embedding provider raises in
\* upsert_user_memory or in get_user_memories with search text, the error is
\* raised to the caller, no point is written, no search is run and the stored
\* records are unchanged.
C23_EmbeddingFailurePropagates == []C23_Raised /\ [][C23_StoreUnchanged]_vars

\* An upsert for the id of a stored record of another content raised on the
\* embedding, and the stored record is still the old one.
C23_Witness ==
    /\ IsUpsert /\ EmbeddingFailed /\ res.status = "raised"
    /\ res.args.memory_id # <<>>
    /\ \E p \in PointsOf(res.id) : p.payload.memory # res.args.memory.memory

\* C24 (concurrent first writes): while two upsert_user_memory calls run, the
\* collection is never created twice (a create the backend refuses because
\* the other call created first is swallowed and creates nothing); when both
\* calls for different memory_ids have returned, the collection exists,
\* created once, both points were written and are stored, and each call has
\* returned its own record.
C24_ConcurrentFirstWrites ==
    procs # NoProcs =>
        /\ CreatesDone = (IF collection THEN 1 ELSE 0)
        /\ (AllDone /\ ~SameId) =>
               /\ collection /\ CreatesDone = 1
               /\ Len(writes) = 2 /\ SeqRange(writes) = Callers
               /\ points = { PointWritten(p) : p \in Callers }
               /\ Cardinality(points) = 2
               /\ \A p \in Callers : procs[p].value = <<DataOf(p)>>

\* Both calls found no collection and both issued create_collection; the
\* backend refused the second create, and still both records are stored and
\* returned.
C24_Witness ==
    /\ AllDone /\ ~SameId
    /\ creates.issued = 2 /\ creates.failed = 1
    /\ Len(writes) = 2
    /\ \A p \in Callers : procs[p].value # <<>>
    /\ Cardinality(points) = 2

\* The point upsert_user_memory's last call handed to the backend.
PointOfCall(call) ==
    [id |-> call.id, vector |-> get_embedding(call.args.memory.memory),
     payload |-> data_of(call.args.memory, call.id, call.now)]

\* C25, its state part: upsert_user_memory has returned a record exactly when
\* the backend took its point write, and otherwise None or an exception; the
\* one stored point of the id then has the payload's memory_id as its id and
\* as payload the data returned (as is, or as the UserMemory built from it);
\* a failure of the payload indexes after the write changes none of this.
C25_ReturnedIffWritten ==
    IsUpsert =>
        /\ (res.status = "returned" /\ res.value # <<>>) <=> res.written
        /\ res.written => Count(res.calls, "upsert") = 1
        /\ res.failed \in {"embed", "PointStruct", "upsert"} => ~res.written
        /\ res.failed = "create_payload_index" => res.written
        /\ res.written =>
               /\ Cardinality(PointsOf(res.id)) = 1
               /\ \A p \in PointsOf(res.id) :
                      /\ p.id = p.payload.memory_id
                      /\ res.value[1] = (IF res.args.deserialize
                                         THEN from_dict(p.payload) ELSE p.payload)

\* C25, its step part: a call whose write the backend took has put its point
\* in place of the id's earlier one and touched no other; a call that
\* returns None (or raises) leaves the stored records unchanged.
C25_StoreStep ==
    IsUpsert' =>
        /\ res'.written => points' = QdrantUpsert(points, PointOfCall(res'))
        /\ ~res'.written => points' = points
        /\ res'.value = <<>> => points' = points

\* C25 (return value matches store): upsert_user_memory returns a record if
\* and only if the point write succeeded, the stored point then has the
\* payload's memory_id as id and the returned data as payload, also when the
\* payload-index creation fails afterwards; when it returns None the stored
\* records are unchanged.
C25_ReturnMatchesStore == []C25_ReturnedIffWritten /\ [][C25_StoreStep]_vars

\* The payload indexes failed after the point write had replaced an older
\* record of the id: the new record is stored and returned as a UserMemory.
C25_Witness ==
    /\ IsUpsert /\ res.failed = "create_payload_index"
    /\ res.written /\ res.value # <<>> /\ res.args.deserialize
    /\ res.replaced
    /\ PointsOf(res.id) = { PointOfCall(res) }
    /\ Cardinality(points) = 2

=============================================================================
